---- MODULE Spec2Model ----
(***************************************************************************)
(* ETL pipeline for electricity sales data (etl_pipeline.py).              *)
(*                                                                         *)
(* A DataFrame is modelled as [columns, rows]: columns is the sequence of  *)
(* column labels (labels may repeat, as pandas allows), rows the sequence  *)
(* of rows, each row a sequence of cells aligned with columns.  A cell is  *)
(* a tagged value:                                                         *)
(*   [t |-> "null",  v |-> 0]        NaN / None                            *)
(*   [t |-> "num",   v |-> n]        a number                              *)
(*   [t |-> "str",   v |-> "..."]    a Python str compared as a whole      *)
(*   [t |-> "chars", v |-> <<...>>]  a Python str spelled character by     *)
(*                                   character (period: it is sliced)     *)
(***************************************************************************)
EXTENDS Integers, Sequences, FiniteSets, TLC

VARIABLES
    raw_data,   \* the caller's DataFrame object (or a non-DataFrame value)
    outcome,    \* what the last call returned or raised; kind "none" before it
    fs,         \* the working directory: path -> file
    call,       \* the last call of extract_tabular_data or load: function, arguments
    ncalls,     \* calls of load made so far
    pc,         \* position of the script: run, stage, status
    env,        \* the script's variables: the three DataFrames it binds
    ran,        \* stages executed in the current run, in order
    written,    \* output files completely written in the current run
    failed_at   \* the first stage of the current run that raised, "" if none

vars == <<raw_data, outcome, fs, call, ncalls, pc, env, ran, written, failed_at>>

(***************************************************************************)
(* Bounds                                                                  *)
(***************************************************************************)
MaxRows == 2
MaxCalls == 2

(***************************************************************************)
(* Cells and strings                                                       *)
(***************************************************************************)
Null == [t |-> "null", v |-> 0]
Num(n) == [t |-> "num", v |-> n]
Str(s) == [t |-> "str", v |-> s]
Chars(s) == [t |-> "chars", v |-> s]

IsNull(c) == c.t = "null"

Min(a, b) == IF a < b THEN a ELSE b
Max(a, b) == IF a > b THEN a ELSE b

\* s[:n] of a Python str
Prefix(s, n) == SubSeq(s, 1, Min(n, Len(s)))
\* s[-n:] of a Python str (n > 0)
Suffix(s, n) == SubSeq(s, Max(1, Len(s) - n + 1), Len(s))

Contains(seq, x) == \E i \in DOMAIN seq : seq[i] = x
Positions(seq, x) == {i \in DOMAIN seq : seq[i] = x}

(***************************************************************************)
(* transform_electricity_sales_data (second definition, the one bound to   *)
(* the name once the module is loaded)                                     *)
(***************************************************************************)
required_columns == <<"period", "stateid", "sectorName", "price", "price-units">>

\* the dict column_mapping in insertion order, as <<actual, expected>> pairs
column_mapping == <<
    <<"Period", "period">>,
    <<"Date", "period">>,
    <<"StateID", "stateid">>,
    <<"StateId", "stateid">>,
    <<"SectorName", "sectorName">>,
    <<"sectorname", "sectorName">>,
    <<"Price", "price">>,
    <<"UnitPrice", "price">>,
    <<"Price-Units", "price-units">>,
    <<"price_units", "price-units">>,
    <<"unit_price", "price-units">> >>

\* DataFrame.rename(columns={a: e}): every label a becomes e
RenameColumn(cols, a, e) == [i \in DOMAIN cols |-> IF cols[i] = a THEN e ELSE cols[i]]

\* the loop over column_mapping.items(), from entry k on
RECURSIVE NormalizeFrom(_, _)
NormalizeFrom(cols, k) ==
    IF k > Len(column_mapping) THEN cols
    ELSE LET actual_col == column_mapping[k][1]
             expected_col == column_mapping[k][2]
         IN IF Contains(cols, actual_col)
            THEN NormalizeFrom(RenameColumn(cols, actual_col, expected_col), k + 1)
            ELSE NormalizeFrom(cols, k + 1)

NormalizeColumns(cols) == NormalizeFrom(cols, 1)

\* any(col in transformed_data.columns for col in required_columns)
AnyRequired(cols) == \E k \in DOMAIN required_columns : Contains(cols, required_columns[k])
\* all(col in transformed_data.columns for col in required_columns)
AllRequired(cols) == \A k \in DOMAIN required_columns : Contains(cols, required_columns[k])
\* (mutant) every required column reported missing
MissingColsAll(cols) == required_columns

\* [col for col in required_columns if col not in transformed_data.columns]
MissingCols(cols) ==
    LET absent(c) == ~Contains(cols, c)
    IN SelectSeq(required_columns, absent)

\* (mutant) dropna on the wrong subset: no row is dropped
DropNaPriceKeepsAll(df) == df

\* dropna(subset=['price']): a row stays when every column labelled price is
\* non-null (how='any' over all columns the label selects)
DropNaPrice(df) ==
    LET keep(r) == \A i \in Positions(df.columns, "price") : ~IsNull(r[i])
    IN [df EXCEPT !.rows = SelectSeq(df.rows, keep)]

\* df[df['sectorName'].isin(['residential', 'transportation'])], a stable row
\* selection by a boolean Series (sectorName labels one column)
SectorNames == {"residential", "transportation"}
SectorFilter(df) ==
    LET j == CHOOSE i \in DOMAIN df.columns : df.columns[i] = "sectorName"
        keep(r) == r[j].t = "str" /\ r[j].v \in SectorNames
    IN [df EXCEPT !.rows = SelectSeq(df.rows, keep)]

\* (mutant) year taken as characters 5-6, period[4:6]
StrYearFixedOffset(c) == IF c.t = "chars" THEN Chars(SubSeq(c.v, 5, Min(6, Len(c.v)))) ELSE Null

\* Series.str[:4] / Series.str[-2:] elementwise: a non-str element gives NaN
StrMonth(c) == IF c.t = "chars" THEN Chars(Prefix(c.v, 4)) ELSE Null
StrYear(c) == IF c.t = "chars" THEN Chars(Suffix(c.v, 2)) ELSE Null

\* Series.str exists only for one object-dtype column: the label must select a
\* single column (a DataFrame has no .str) and the column, as constructed, must
\* be empty or hold at least one str (an all-numeric column is int64/float64)
ObjectDtype(df, j) == df.rows = <<>> \/ \E i \in DOMAIN df.rows : df.rows[i][j].t \in {"chars", "str"}
StrAccessorOk(df, label) ==
    /\ Cardinality(Positions(df.columns, label)) = 1
    /\ \A j \in Positions(df.columns, label) : ObjectDtype(df, j)

\* df['period'] as a Series: the cells of the column, row by row
PeriodSeries(df) ==
    LET p == CHOOSE i \in DOMAIN df.columns : df.columns[i] = "period"
    IN [i \in DOMAIN df.rows |-> df.rows[i][p]]

\* df[label] = values: the label's column is overwritten where it exists and
\* appended as the last column where it does not
SetColumn(df, label, values) ==
    IF Contains(df.columns, label)
    THEN [df EXCEPT !.rows = [i \in DOMAIN df.rows |->
             [j \in DOMAIN df.columns |->
                 IF df.columns[j] = label THEN values[i] ELSE df.rows[i][j]]]]
    ELSE [df EXCEPT !.columns = Append(df.columns, label),
                    !.rows = [i \in DOMAIN df.rows |-> Append(df.rows[i], values[i])]]

\* df[[k1, ..., kn]]: for each key in order, every column the key labels
selected_columns == <<"year", "month", "stateid", "price", "price-units">>
RECURSIVE KeyPositions(_, _, _)
KeyPositions(cols, label, from) ==
    IF from > Len(cols) THEN <<>>
    ELSE (IF cols[from] = label THEN <<from>> ELSE <<>>) \o KeyPositions(cols, label, from + 1)
RECURSIVE SelectPositions(_, _, _)
SelectPositions(cols, keys, k) ==
    IF k > Len(keys) THEN <<>>
    ELSE KeyPositions(cols, keys[k], 1) \o SelectPositions(cols, keys, k + 1)
Project(df, keys) ==
    LET pos == SelectPositions(df.columns, keys, 1)
    IN [df EXCEPT !.columns = [k \in DOMAIN pos |-> df.columns[pos[k]]],
                  !.rows = [i \in DOMAIN df.rows |-> [k \in DOMAIN pos |-> df.rows[i][pos[k]]]]]

(***************************************************************************)
(* Objects.  Python names are references: store is the sequence of        *)
(* DataFrame objects that exist, a reference is an index into it, an       *)
(* inplace operation rewrites store[ref] and every other operation         *)
(* appends the object it creates.                                          *)
(***************************************************************************)
NoTable == [kind |-> "other", columns |-> <<>>, rows |-> <<>>]
DataFrame(cols, rows) == [kind |-> "DataFrame", columns |-> cols, rows |-> rows]

NoOutcome ==
    [kind |-> "none", exc |-> "", error |-> "", expected |-> <<>>, missing |-> <<>>,
     actual |-> <<>>, table |-> NoTable]
Returned(df) == [NoOutcome EXCEPT !.kind = "returned", !.table = df]
Raised(exc, error) == [NoOutcome EXCEPT !.kind = "raised", !.exc = exc, !.error = error]

\* (mutant) no copy: the working name is bound to the caller's object
DataFrameAlias(store, ref) == [store |-> store, ref |-> ref]

\* raw_data.copy(): a new object with the same content
DataFrameCopy(store, ref) == [store |-> Append(store, store[ref]), ref |-> Len(store) + 1]

\* lines 246-261, once validation has passed; td is the working copy
FilterAndDerive(store, td, str_ok) ==
    LET s2 == [store EXCEPT ![td] = DropNaPrice(@)]
        s3 == Append(s2, SectorFilter(s2[td]))
        t3 == Len(s3)
    IN IF ~str_ok
       THEN [store |-> s3, outcome |-> Raised("AttributeError", "")]
       ELSE LET month == [i \in DOMAIN s3[t3].rows |-> StrMonth(PeriodSeries(s3[t3])[i])]
                s4 == [s3 EXCEPT ![t3] = SetColumn(@, "month", month)]
                year == [i \in DOMAIN s4[t3].rows |-> StrYear(PeriodSeries(s4[t3])[i])]
                s5 == [s4 EXCEPT ![t3] = SetColumn(@, "year", year)]
                out == Project(s5[t3], selected_columns)
            IN [store |-> Append(s5, out), outcome |-> Returned(out)]

\* lines 212-261: the call on the object store[raw_ref]; gives the store
\* after the call and what the call returned or raised
transform_electricity_sales_data(store, raw_ref) ==
    IF store[raw_ref].kind # "DataFrame"
    THEN [store |-> store, outcome |-> Raised("TypeError", "InvalidArgument")]
    ELSE LET c == DataFrameCopy(store, raw_ref)
             td == c.ref
             s1 == [c.store EXCEPT ![td].columns = NormalizeColumns(@)]
             cols == s1[td].columns
         IN IF ~AnyRequired(cols)
            THEN [store |-> s1,
                  outcome |-> [Raised("KeyError", "SchemaMismatch") EXCEPT
                                  !.expected = required_columns,
                                  !.actual = s1[raw_ref].columns]]
            ELSE IF ~AllRequired(cols)
            THEN [store |-> s1,
                  outcome |-> [Raised("KeyError", "MissingColumns") EXCEPT
                                  !.missing = MissingCols(cols),
                                  !.actual = s1[raw_ref].columns]]
            ELSE FilterAndDerive(s1, td, StrAccessorOk(s1[td], "period"))

(***************************************************************************)
(* Input tables.  A layout is the column labels of a table together with   *)
(* the field of the sales record each column carries; a table is a layout  *)
(* filled with at most MaxRows sales records.                              *)
(***************************************************************************)
P202301 == <<"2", "0", "2", "3", "0", "1">>
P2023_11 == <<"2", "0", "2", "3", "-", "1", "1">>
P2302 == <<"2", "3", "0", "2">>

\* period as text (6, 7 and 4 characters) and as read_csv types an all-digit
\* column (datagenerate.py writes 202301 unquoted): a number
Periods == {Chars(P202301), Chars(P2023_11), Chars(P2302), Num(202301)}
Sectors == {"residential", "transportation", "Residential", "commercial"}
Prices == {Num(15), Null}

\* the sales records drawn: every sector and price (and second price column)
\* with the period 202301, and every period with a kept sector and price
Records ==
    [period : {Chars(P202301)}, sector : Sectors, price : Prices, alt : Prices]
    \cup [period : Periods, sector : {"residential"}, price : {Num(15)}, alt : {Num(15)}]

FieldCell(rec, field) ==
    CASE field = "period" -> rec.period
      [] field = "sectorName" -> Str(rec.sector)
      [] field = "price" -> rec.price
      [] field = "alt" -> rec.alt
      [] field = "stateid" -> Str("CA")
      [] field = "units" -> Str("cents per kWh")
      [] OTHER -> Str("x")

\* the data dictionary
CanonicalLayout ==
    << <<"period", "period">>, <<"stateid", "stateid">>, <<"sectorName", "sectorName">>,
       <<"price", "price">>, <<"price-units", "units">> >>
\* datagenerate.py: two extra columns
GeneratedLayout ==
    << <<"period", "period">>, <<"stateid", "stateid">>, <<"stateDescription", "extra">>,
       <<"sectorid", "extra">>, <<"sectorName", "sectorName">>, <<"price", "price">>,
       <<"price-units", "units">> >>
\* price missing
NoPriceLayout ==
    << <<"period", "period">>, <<"stateid", "stateid">>, <<"sectorName", "sectorName">>,
       <<"price-units", "units">> >>
\* no required column
CapabilityLayout == << <<"capacity", "extra">>, <<"sectorid", "extra">> >>

\* The layouts drawn.  None has two columns that normalise to sectorName:
\* there df['sectorName'] is a DataFrame and the selection of line 250 is a
\* boolean-frame mask, not the row filter SectorFilter models.
Layouts == {
    CanonicalLayout,
    GeneratedLayout,
    \* aliases only
    << <<"Date", "period">>, <<"StateID", "stateid">>, <<"SectorName", "sectorName">>,
       <<"UnitPrice", "price">>, <<"price_units", "units">> >>,
    \* another order, and an extra column that is already called month
    << <<"price-units", "units">>, <<"month", "extra">>, <<"price", "price">>,
       <<"sectorName", "sectorName">>, <<"stateid", "stateid">>, <<"Period", "period">> >>,
    \* a canonical column and one of its aliases
    << <<"period", "period">>, <<"stateid", "stateid">>, <<"sectorName", "sectorName">>,
       <<"price", "price">>, <<"price-units", "units">>, <<"UnitPrice", "alt">> >>,
    \* two aliases of one canonical column
    << <<"period", "period">>, <<"stateid", "stateid">>, <<"sectorName", "sectorName">>,
       <<"UnitPrice", "price">>, <<"Price", "alt">>, <<"price-units", "units">> >>,
    \* period and its alias Date
    << <<"period", "period">>, <<"Date", "period">>, <<"stateid", "stateid">>,
       <<"sectorName", "sectorName">>, <<"price", "price">>, <<"price-units", "units">> >>,
    NoPriceLayout,
    \* only an alias of price
    << <<"Price", "price">>, <<"sectorid", "extra">> >>,
    CapabilityLayout }

Rec(period, sector, price) == [period |-> period, sector |-> sector, price |-> price, alt |-> price]

RecordSeqs == UNION {[1..n -> Records] : n \in 0..MaxRows}

Fill(layout, recs) ==
    DataFrame([j \in DOMAIN layout |-> layout[j][1]],
              [i \in DOMAIN recs |-> [j \in DOMAIN layout |-> FieldCell(recs[i], layout[j][2])]])

InputTables == {Fill(layout, recs) : layout \in Layouts, recs \in RecordSeqs}

(***************************************************************************)
(* The call transform_electricity_sales_data(raw_data)                     *)
(***************************************************************************)
NoCall == [fn |-> "", dataframe |-> NoTable, file_path |-> Null]
NoEnv == [capability |-> NoTable, sales |-> NoTable, cleaned |-> NoTable]
Idle == [run |-> "", stage |-> "", status |-> "idle"]

Init ==
    /\ raw_data \in InputTables \cup {NoTable}
    /\ outcome = NoOutcome
    /\ fs = <<>> /\ call = NoCall /\ ncalls = 0
    /\ pc = Idle /\ env = NoEnv /\ ran = <<>> /\ written = {} /\ failed_at = ""

CallTransform ==
    /\ outcome.kind = "none"
    /\ LET r == transform_electricity_sales_data(<<raw_data>>, 1)
       IN /\ raw_data' = r.store[1]
          /\ outcome' = r.outcome
    /\ UNCHANGED <<fs, call, ncalls, pc, env, ran, written, failed_at>>

Next == CallTransform

Spec == Init /\ [][Next]_vars

(***************************************************************************)
(* Files.  A path is a Python str spelled character by character (its      *)
(* ending is tested); a file is absent, holds a table a reader can parse,  *)
(* or holds bytes no reader can parse (a truncated write among them).      *)
(***************************************************************************)
EndsWith(s, suffix) ==
    /\ Len(s) >= Len(suffix)
    /\ SubSeq(s, Len(s) - Len(suffix) + 1, Len(s)) = suffix
DotCsv == <<".", "c", "s", "v">>
DotParquet == <<".", "p", "a", "r", "q", "u", "e", "t">>

CapabilityJson ==
    <<"e", "l", "e", "c", "t", "r", "i", "c", "i", "t", "y", "_", "c", "a",
       "p", "a", "b", "i", "l", "i", "t", "y", "_", "n", "e", "s", "t", "e",
       "d", ".", "j", "s", "o", "n">>
SalesCsv ==
    <<"e", "l", "e", "c", "t", "r", "i", "c", "i", "t", "y", "_", "s", "a",
       "l", "e", "s", ".", "c", "s", "v">>
SalesParquet ==
    <<"e", "l", "e", "c", "t", "r", "i", "c", "i", "t", "y", "_", "s", "a",
       "l", "e", "s", ".", "p", "a", "r", "q", "u", "e", "t">>
SalesTxt ==
    <<"e", "l", "e", "c", "t", "r", "i", "c", "i", "t", "y", "_", "s", "a",
       "l", "e", "s", ".", "t", "x", "t">>
LoadedCapability ==
    <<"l", "o", "a", "d", "e", "d", "_", "_", "e", "l", "e", "c", "t", "r",
       "i", "c", "i", "t", "y", "_", "c", "a", "p", "a", "b", "i", "l", "i",
       "t", "y", ".", "p", "a", "r", "q", "u", "e", "t">>
LoadedSales ==
    <<"l", "o", "a", "d", "e", "d", "_", "_", "e", "l", "e", "c", "t", "r",
       "i", "c", "i", "t", "y", "_", "s", "a", "l", "e", "s", ".", "c", "s",
       "v">>
AllPaths == {CapabilityJson, SalesCsv, SalesParquet, SalesTxt, LoadedCapability, LoadedSales}

Absent == [state |-> "absent", table |-> NoTable]
Garbage == [state |-> "garbage", table |-> NoTable]
Data(df) == [state |-> "data", table |-> df]

\* os.path.exists(file_path)
PathExists(files, path) == path \in DOMAIN files /\ files[path].state # "absent"

\* pd.read_csv / pd.read_parquet on a path: the reader itself raises
\* FileNotFoundError on a missing file and a parse error on unreadable content
ReadTable(files, path) ==
    IF ~PathExists(files, path) THEN Raised("FileNotFoundError", "NotFound")
    ELSE IF files[path].state = "garbage" THEN Raised("ParserError", "ParseError")
    ELSE Returned(files[path].table)

\* extract_tabular_data, first definition (lines 7-28): no existence check
extract_tabular_data_first(files, file_path) ==
    IF file_path.t # "chars" THEN Raised("TypeError", "InvalidArgument")
    ELSE IF EndsWith(file_path.v, DotCsv) THEN ReadTable(files, file_path.v)
    ELSE IF EndsWith(file_path.v, DotParquet) THEN ReadTable(files, file_path.v)
    ELSE Raised("Exception", "UnsupportedFormat")

\* (mutant) the extension is tested before the existence of the file
ExtractTabularExtensionFirst(files, file_path) ==
    IF file_path.t # "chars" THEN Raised("TypeError", "InvalidArgument")
    ELSE IF ~(EndsWith(file_path.v, DotCsv) \/ EndsWith(file_path.v, DotParquet))
    THEN Raised("Exception", "UnsupportedFormat")
    ELSE ReadTable(files, file_path.v)

\* extract_tabular_data, second definition (lines 138-162)
extract_tabular_data(files, file_path) ==
    IF file_path.t # "chars" THEN Raised("TypeError", "InvalidArgument")
    ELSE IF ~PathExists(files, file_path.v) THEN Raised("FileNotFoundError", "NotFound")
    ELSE IF EndsWith(file_path.v, DotCsv) THEN ReadTable(files, file_path.v)
    ELSE IF EndsWith(file_path.v, DotParquet) THEN ReadTable(files, file_path.v)
    ELSE Raised("Exception", "UnsupportedFormat")

\* extract_json_data, first definition (lines 30-51): open() and read_json sit in
\* one try block, every failure is re-raised as Exception
extract_json_data_first(files, file_path) ==
    IF file_path.t # "chars" THEN Raised("TypeError", "InvalidArgument")
    ELSE IF ~PathExists(files, file_path.v) \/ files[file_path.v].state = "garbage"
    THEN Raised("Exception", "ParseError")
    ELSE Returned(files[file_path.v].table)

\* extract_json_data, second definition (lines 164-188)
extract_json_data(files, file_path) ==
    IF file_path.t # "chars" THEN Raised("TypeError", "InvalidArgument")
    ELSE IF ~PathExists(files, file_path.v) THEN Raised("FileNotFoundError", "NotFound")
    ELSE IF files[file_path.v].state = "garbage" THEN Raised("Exception", "ParseError")
    ELSE Returned(files[file_path.v].table)

\* transform_electricity_sales_data, first definition (lines 53-100): no alias
\* renaming, one validation; the missing names are a set in the source and are
\* listed here in the order of required_columns
transform_electricity_sales_data_first(store, raw_ref) ==
    IF store[raw_ref].kind # "DataFrame"
    THEN [store |-> store, outcome |-> Raised("TypeError", "InvalidArgument")]
    ELSE IF ~AllRequired(store[raw_ref].columns)
    THEN [store |-> store,
          outcome |-> [Raised("KeyError", "MissingColumns") EXCEPT
                          !.missing = MissingCols(store[raw_ref].columns)]]
    ELSE LET c == DataFrameCopy(store, raw_ref)
         IN FilterAndDerive(c.store, c.ref, StrAccessorOk(c.store[c.ref], "period"))

\* what the operating system does with a write: it completes, it fails before
\* the file is touched, or it fails midway and leaves a truncated file
IoOutcomes == {"ok", "fails", "fails_midway"}

\* dataframe.to_csv(file_path, index=False) / dataframe.to_parquet(...)
WriteTable(files, path, df, io) ==
    IF io = "ok" THEN [fs |-> (path :> Data(df)) @@ files, outcome |-> Returned(NoTable)]
    ELSE IF io = "fails_midway"
    THEN [fs |-> (path :> Garbage) @@ files, outcome |-> Raised("OSError", "IOError")]
    ELSE [fs |-> files, outcome |-> Raised("OSError", "IOError")]

\* (mutant) the else branch writes CSV instead of raising
LoadWritesAnyExtension(files, dataframe, file_path, io) ==
    IF dataframe.kind # "DataFrame"
    THEN [fs |-> files, outcome |-> Raised("TypeError", "InvalidArgument")]
    ELSE IF file_path.t # "chars"
    THEN [fs |-> files, outcome |-> Raised("TypeError", "InvalidArgument")]
    ELSE WriteTable(files, file_path.v, dataframe, io)

\* load (lines 263-284; the first definition, lines 102-123, is the same text)
load(files, dataframe, file_path, io) ==
    IF dataframe.kind # "DataFrame"
    THEN [fs |-> files, outcome |-> Raised("TypeError", "InvalidArgument")]
    ELSE IF file_path.t # "chars"
    THEN [fs |-> files, outcome |-> Raised("TypeError", "InvalidArgument")]
    ELSE IF EndsWith(file_path.v, DotCsv) THEN WriteTable(files, file_path.v, dataframe, io)
    ELSE IF EndsWith(file_path.v, DotParquet) THEN WriteTable(files, file_path.v, dataframe, io)
    ELSE [fs |-> files, outcome |-> Raised("Exception", "UnsupportedFormat")]

(***************************************************************************)
(* Tables the files hold                                                   *)
(***************************************************************************)
\* electricity_sales.csv with periods a reader keeps as text
SalesText ==
    Fill(GeneratedLayout, << Rec(Chars(P2023_11), "residential", Num(15)),
                             Rec(Chars(P2023_11), "commercial", Num(15)),
                             Rec(Chars(P2023_11), "transportation", Null) >>)
\* electricity_sales.csv as datagenerate.py writes it: read_csv types period int64
SalesDigits ==
    Fill(GeneratedLayout, << Rec(Num(202301), "residential", Num(15)),
                             Rec(Num(202301), "transportation", Null) >>)
\* a sales file without the price column
SalesNoPrice == Fill(NoPriceLayout, << Rec(Chars(P202301), "residential", Num(15)) >>)
\* the flattened capability records
CapabilityTable == Fill(CapabilityLayout, << Rec(Chars(P202301), "residential", Num(15)) >>)
\* a transformed table
CleanedSales == transform_electricity_sales_data(<<SalesText>>, 1).outcome.table

(***************************************************************************)
(* Calls of extract_tabular_data (specification SpecExtract)               *)
(***************************************************************************)
PathArguments == {Chars(SalesCsv), Chars(SalesParquet), Chars(SalesTxt), Num(5), Null}

InitExtract ==
    /\ fs \in {f \in [AllPaths -> {Absent, Garbage, Data(SalesText)}] :
                 \A q \in {CapabilityJson, LoadedCapability, LoadedSales} : f[q] = Absent}
    /\ raw_data = NoTable /\ outcome = NoOutcome /\ call = NoCall /\ ncalls = 0
    /\ pc = Idle /\ env = NoEnv /\ ran = <<>> /\ written = {} /\ failed_at = ""

CallExtractTabular ==
    /\ call.fn = ""
    /\ \E a \in PathArguments :
          /\ call' = [NoCall EXCEPT !.fn = "extract_tabular_data", !.file_path = a]
          /\ outcome' = extract_tabular_data(fs, a)
    /\ UNCHANGED <<raw_data, fs, ncalls, pc, env, ran, written, failed_at>>

CallExtractTabularFirst ==
    /\ call.fn = ""
    /\ \E a \in PathArguments :
          /\ call' = [NoCall EXCEPT !.fn = "extract_tabular_data_first", !.file_path = a]
          /\ outcome' = extract_tabular_data_first(fs, a)
    /\ UNCHANGED <<raw_data, fs, ncalls, pc, env, ran, written, failed_at>>

NextExtract == CallExtractTabular \/ CallExtractTabularFirst

SpecExtract == InitExtract /\ [][NextExtract]_vars

(***************************************************************************)
(* Calls of load (specification SpecLoad)                                  *)
(***************************************************************************)
LoadArguments == {Chars(LoadedSales), Chars(LoadedCapability), Chars(SalesTxt), Num(5)}

InitLoad ==
    /\ fs \in {f \in [AllPaths -> {Absent, Data(SalesDigits)}] :
                 \A q \in {CapabilityJson, SalesCsv, SalesParquet} : f[q] = Absent}
    /\ raw_data = NoTable /\ outcome = NoOutcome /\ call = NoCall /\ ncalls = 0
    /\ pc = Idle /\ env = NoEnv /\ ran = <<>> /\ written = {} /\ failed_at = ""

CallLoad ==
    /\ ncalls < MaxCalls
    /\ \E df \in {CleanedSales, NoTable}, a \in LoadArguments, io \in IoOutcomes :
          LET r == load(fs, df, a, io)
          IN /\ fs' = r.fs
             /\ outcome' = r.outcome
             /\ call' = [fn |-> "load", dataframe |-> df, file_path |-> a]
    /\ ncalls' = ncalls + 1
    /\ UNCHANGED <<raw_data, pc, env, ran, written, failed_at>>

NextLoad == CallLoad

SpecLoad == InitLoad /\ [][NextLoad]_vars

(***************************************************************************)
(* The script (specification SpecDriver): the module-level statements of   *)
(* lines 127-131 run first, with the first definitions and no handler;     *)
(* then, run as __main__, the try block of lines 288-305 with the second   *)
(* definitions.                                                            *)
(***************************************************************************)
Stages == <<"extract_json", "extract_tabular", "transform", "load_capability", "load_sales">>
StageIndex(stage) == CHOOSE k \in DOMAIN Stages : Stages[k] = stage

\* (mutant) a failure is swallowed and the next statement runs
NextPcContinues(p, raised) ==
    IF p.stage = Stages[Len(Stages)] THEN [p EXCEPT !.status = "completed"]
    ELSE [p EXCEPT !.stage = Stages[StageIndex(p.stage) + 1]]

\* where control goes after a statement: an exception leaves the module-level
\* script uncaught and is caught by the except clauses of the try block, which
\* print and fall off the end; otherwise the next statement runs
NextPc(p, raised) ==
    IF raised THEN [p EXCEPT !.status = IF p.run = "script" THEN "crashed" ELSE "failed"]
    ELSE IF p.stage = Stages[Len(Stages)] THEN [p EXCEPT !.status = "completed"]
    ELSE [p EXCEPT !.stage = Stages[StageIndex(p.stage) + 1]]

At(stage) == pc.status = "running" /\ pc.stage = stage

\* bookkeeping common to every statement
Executed(stage, raised, produced) ==
    /\ pc' = NextPc(pc, raised)
    /\ ran' = Append(ran, stage)
    /\ written' = written \cup produced
    /\ failed_at' = IF failed_at = "" /\ raised THEN stage ELSE failed_at

InitDriver ==
    /\ fs \in {f \in [AllPaths -> {Absent, Garbage, Data(CapabilityTable), Data(SalesText),
                                   Data(SalesDigits), Data(SalesNoPrice)}] :
                 /\ f[CapabilityJson] \in {Absent, Garbage, Data(CapabilityTable)}
                 /\ f[SalesCsv] \in {Absent, Garbage, Data(SalesText), Data(SalesDigits),
                                     Data(SalesNoPrice)}
                 \* output files of an earlier run may still be there
                 /\ f[LoadedCapability] \in {Absent, Data(CapabilityTable)}
                 /\ f[LoadedSales] \in {Absent, Garbage}
                 /\ f[SalesParquet] = Absent /\ f[SalesTxt] = Absent}
    /\ pc = [run |-> "script", stage |-> Stages[1], status |-> "running"]
    /\ raw_data = NoTable /\ outcome = NoOutcome /\ call = NoCall /\ ncalls = 0
    /\ env = NoEnv /\ ran = <<>> /\ written = {} /\ failed_at = ""

\* raw_electricity_capability_df = extract_json_data("electricity_capability_nested.json")
ExtractJson ==
    /\ At("extract_json")
    /\ LET r == IF pc.run = "script"
                THEN extract_json_data_first(fs, Chars(CapabilityJson))
                ELSE extract_json_data(fs, Chars(CapabilityJson))
       IN /\ outcome' = r
          /\ env' = IF r.kind = "returned" THEN [env EXCEPT !.capability = r.table] ELSE env
          /\ Executed("extract_json", r.kind = "raised", {})
    /\ UNCHANGED <<raw_data, fs, call, ncalls>>

\* raw_electricity_sales_df = extract_tabular_data("electricity_sales.csv")
ExtractTabular ==
    /\ At("extract_tabular")
    /\ LET r == IF pc.run = "script"
                THEN extract_tabular_data_first(fs, Chars(SalesCsv))
                ELSE extract_tabular_data(fs, Chars(SalesCsv))
       IN /\ outcome' = r
          /\ env' = IF r.kind = "returned" THEN [env EXCEPT !.sales = r.table] ELSE env
          /\ Executed("extract_tabular", r.kind = "raised", {})
    /\ UNCHANGED <<raw_data, fs, call, ncalls>>

\* cleaned_electricity_sales_df = transform_electricity_sales_data(raw_electricity_sales_df)
Transform ==
    /\ At("transform")
    /\ LET r == IF pc.run = "script"
                THEN transform_electricity_sales_data_first(<<env.sales>>, 1)
                ELSE transform_electricity_sales_data(<<env.sales>>, 1)
       IN /\ outcome' = r.outcome
          /\ env' = IF r.outcome.kind = "returned"
                    THEN [env EXCEPT !.sales = r.store[1], !.cleaned = r.outcome.table]
                    ELSE [env EXCEPT !.sales = r.store[1]]
          /\ Executed("transform", r.outcome.kind = "raised", {})
    /\ UNCHANGED <<raw_data, fs, call, ncalls>>

\* load(raw_electricity_capability_df, "loaded__electricity_capability.parquet")
LoadCapability ==
    /\ At("load_capability")
    /\ \E io \in IoOutcomes :
          LET r == load(fs, env.capability, Chars(LoadedCapability), io)
          IN /\ outcome' = r.outcome
             /\ fs' = r.fs
             /\ Executed("load_capability", r.outcome.kind = "raised",
                         IF r.outcome.kind = "returned" THEN {LoadedCapability} ELSE {})
    /\ UNCHANGED <<raw_data, env, call, ncalls>>

\* load(cleaned_electricity_sales_df, "loaded__electricity_sales.csv")
LoadSales ==
    /\ At("load_sales")
    /\ \E io \in IoOutcomes :
          LET r == load(fs, env.cleaned, Chars(LoadedSales), io)
          IN /\ outcome' = r.outcome
             /\ fs' = r.fs
             /\ Executed("load_sales", r.outcome.kind = "raised",
                         IF r.outcome.kind = "returned" THEN {LoadedSales} ELSE {})
    /\ UNCHANGED <<raw_data, env, call, ncalls>>

\* if __name__ == "__main__": the try block starts a run of its own
StartDriver ==
    /\ pc.run = "script" /\ pc.status = "completed"
    /\ pc' = [run |-> "driver", stage |-> Stages[1], status |-> "running"]
    /\ ran' = <<>> /\ written' = {} /\ failed_at' = ""
    /\ UNCHANGED <<raw_data, outcome, fs, call, ncalls, env>>

NextDriver ==
    \/ ExtractJson
    \/ ExtractTabular
    \/ Transform
    \/ LoadCapability
    \/ LoadSales
    \/ StartDriver

SpecDriver == InitDriver /\ [][NextDriver]_vars

(***************************************************************************)
(* Reading the input table the way the contract words it                   *)
(***************************************************************************)
\* the canonical name a column label stands for
Canonical(label) ==
    IF \E k \in DOMAIN column_mapping : column_mapping[k][1] = label
    THEN column_mapping[CHOOSE k \in DOMAIN column_mapping : column_mapping[k][1] = label][2]
    ELSE label
\* the canonical names present in a table, aliases counted
PresentCanonical(df) == {Canonical(df.columns[j]) : j \in DOMAIN df.columns}
RequiredSet == {required_columns[k] : k \in DOMAIN required_columns}
Range(seq) == {seq[i] : i \in DOMAIN seq}

\* the column of an input table a canonical name reads: the column carrying
\* the name itself, else the first column carrying an alias of it
InputColumn(df, name) ==
    IF Contains(df.columns, name)
    THEN CHOOSE j \in DOMAIN df.columns : df.columns[j] = name
    ELSE CHOOSE j \in DOMAIN df.columns :
            /\ Canonical(df.columns[j]) = name
            /\ \A i \in DOMAIN df.columns : Canonical(df.columns[i]) = name => j <= i
InputCell(df, i, name) == df.rows[i][InputColumn(df, name)]
\* the first column of an output table that carries a label
OutputCell(df, k, label) == df.rows[k][CHOOSE j \in DOMAIN df.columns :
    df.columns[j] = label /\ \A i \in DOMAIN df.columns : df.columns[i] = label => j <= i]

Qualifies(df, i) ==
    /\ ~IsNull(InputCell(df, i, "price"))
    /\ InputCell(df, i, "sectorName") \in {Str("residential"), Str("transportation")}
RECURSIVE QualifyingFrom(_, _)
QualifyingFrom(df, i) ==
    IF i > Len(df.rows) THEN <<>>
    ELSE (IF Qualifies(df, i) THEN <<i>> ELSE <<>>) \o QualifyingFrom(df, i + 1)
\* indices of the qualifying input rows, in input order
QualifyingRows(df) == QualifyingFrom(df, 1)

(***************************************************************************)
(* Claims about transform_electricity_sales_data (specification Spec)      *)
(***************************************************************************)
\* the working copy as the filter leaves it: the rows the output derives from
KeptInput(df) == SectorFilter(DropNaPrice([df EXCEPT !.columns = NormalizeColumns(@)]))

\* C1: the returned table has no null price, and it has no more rows than the
\* input has rows with a non-null price (a row with a null price is absent)
C1_NoNullPriceInOutput ==
    outcome.kind = "returned" =>
        /\ \A k \in DOMAIN outcome.table.rows :
              \A j \in Positions(outcome.table.columns, "price") :
                  ~IsNull(outcome.table.rows[k][j])
        /\ Len(outcome.table.rows) <=
              Cardinality({i \in DOMAIN raw_data.rows : ~IsNull(InputCell(raw_data, i, "price"))})
C1_Witness ==
    /\ outcome.kind = "returned"
    /\ Len(outcome.table.rows) = 1
    /\ \E i \in DOMAIN raw_data.rows :
          /\ IsNull(InputCell(raw_data, i, "price"))
          /\ InputCell(raw_data, i, "sectorName") = Str("residential")

\* C2: the output rows are exactly the input rows with a non-null price and a
\* sectorName of residential or transportation, once each, in input order
C2_ExactlyQualifyingRows ==
    outcome.kind = "returned" =>
        LET q == QualifyingRows(raw_data)
            out == outcome.table
        IN /\ Len(out.rows) = Len(q)
           /\ \A k \in DOMAIN q :
                 /\ OutputCell(out, k, "stateid") = InputCell(raw_data, q[k], "stateid")
                 /\ OutputCell(out, k, "price") = InputCell(raw_data, q[k], "price")
                 /\ OutputCell(out, k, "price-units") = InputCell(raw_data, q[k], "price-units")
                 /\ OutputCell(out, k, "month") = StrMonth(InputCell(raw_data, q[k], "period"))

\* C3: an output row derived from an input row whose period is a string of 6
\* or more characters has month = its first 4 and year = its last 2 characters
C3_MonthYearFromPeriod ==
    outcome.kind = "returned" =>
        LET kept == KeptInput(raw_data)
            out == outcome.table
        IN /\ Len(out.rows) = Len(kept.rows)
           /\ \A k \in DOMAIN out.rows :
                 LET p == kept.rows[k][InputColumn(kept, "period")]
                 IN (p.t = "chars" /\ Len(p.v) >= 6) =>
                       /\ OutputCell(out, k, "month") = Chars(SubSeq(p.v, 1, 4))
                       /\ OutputCell(out, k, "year") = Chars(SubSeq(p.v, Len(p.v) - 1, Len(p.v)))
C3_Witness ==
    /\ outcome.kind = "returned"
    /\ \E k \in DOMAIN outcome.table.rows :
          /\ OutputCell(outcome.table, k, "month") = Chars(<<"2", "0", "2", "3">>)
          /\ OutputCell(outcome.table, k, "year") = Chars(<<"1", "1">>)
    /\ \E k \in DOMAIN outcome.table.rows :
          /\ OutputCell(outcome.table, k, "month") = Chars(<<"2", "0", "2", "3">>)
          /\ OutputCell(outcome.table, k, "year") = Chars(<<"0", "1">>)

\* C4: the columns of the returned table are exactly year, month, stateid,
\* price, price-units, in that order
C4_OutputColumns ==
    outcome.kind = "returned" => outcome.table.columns = selected_columns

\* C5: no canonical column present (aliases counted): SchemaMismatch with the
\* expected and the actual columns; some but not all present: MissingColumns
\* naming exactly the absent ones; in both cases nothing is returned
C5_ValidationFailures ==
    (outcome.kind # "none" /\ raw_data.kind = "DataFrame") =>
        LET present == PresentCanonical(raw_data) \cap RequiredSet
        IN /\ present = {} =>
                 /\ outcome.kind = "raised" /\ outcome.error = "SchemaMismatch"
                 /\ outcome.expected = required_columns
                 /\ outcome.actual = raw_data.columns
                 /\ outcome.table = NoTable
           /\ (present # {} /\ present # RequiredSet) =>
                 /\ outcome.kind = "raised" /\ outcome.error = "MissingColumns"
                 /\ Range(outcome.missing) = RequiredSet \ present
                 /\ Len(outcome.missing) = Cardinality(RequiredSet \ present)
                 /\ outcome.table = NoTable
C5_Witness ==
    /\ outcome.error = "MissingColumns"
    /\ outcome.missing = <<"price">>
    /\ Len(raw_data.rows) = MaxRows

\* C6: where a table has a canonical column and an alias of it, normalization
\* leaves exactly one column under the canonical name
C6_AliasSkippedWhenCanonicalPresent ==
    (outcome.kind # "none" /\ raw_data.kind = "DataFrame") =>
        \A c \in RequiredSet :
            (/\ Contains(raw_data.columns, c)
             /\ \E j \in DOMAIN raw_data.columns :
                   raw_data.columns[j] # c /\ Canonical(raw_data.columns[j]) = c)
            => Cardinality(Positions(NormalizeColumns(raw_data.columns), c)) = 1

\* C7: the call, returning or raising, leaves the caller's table as it was
C7_OriginalUnchanged == [][CallTransform => raw_data' = raw_data]_vars
C7_Witness ==
    /\ outcome.kind = "returned"
    /\ Len(outcome.table.rows) < Len(raw_data.rows)
    /\ \E i \in DOMAIN raw_data.rows : IsNull(InputCell(raw_data, i, "price"))
    /\ Contains(raw_data.columns, "UnitPrice")

(***************************************************************************)
(* Claims about extract_tabular_data (specification SpecExtract)           *)
(***************************************************************************)
RecognizedExtension(path) == EndsWith(path, DotCsv) \/ EndsWith(path, DotParquet)

\* C8, as stated: a non-string path fails with InvalidArgument; a string path
\* without a recognized extension fails with UnsupportedFormat, and a string
\* path that does not exist fails with NotFound
C8_AsStated ==
    call.fn = "extract_tabular_data" =>
        IF call.file_path.t # "chars" THEN outcome.error = "InvalidArgument"
        ELSE /\ ~RecognizedExtension(call.file_path.v) => outcome.error = "UnsupportedFormat"
             /\ ~PathExists(fs, call.file_path.v) => outcome.error = "NotFound"

\* C8, amended: a non-string path fails with InvalidArgument; a string path that
\* exists and has no recognized extension fails with UnsupportedFormat; a string
\* path that does not exist fails with NotFound, whatever its extension, under
\* the definition bound to the name (existence is tested first), and under the
\* first definition only when its extension is recognized (otherwise with
\* UnsupportedFormat)
C8_ExtractFailures ==
    call.fn \in {"extract_tabular_data", "extract_tabular_data_first"} =>
        /\ outcome.kind # "none"
        /\ IF call.file_path.t # "chars"
           THEN outcome.kind = "raised" /\ outcome.error = "InvalidArgument"
           ELSE LET path == call.file_path.v
                    missing == ~PathExists(fs, path)
                    known == RecognizedExtension(path)
                IN /\ (~missing /\ ~known) =>
                         outcome.kind = "raised" /\ outcome.error = "UnsupportedFormat"
                   /\ (missing /\ known) =>
                         outcome.kind = "raised" /\ outcome.error = "NotFound"
                   /\ (missing /\ ~known) =>
                         /\ outcome.kind = "raised"
                         /\ outcome.error = IF call.fn = "extract_tabular_data"
                                            THEN "NotFound" ELSE "UnsupportedFormat"
C8_Witness ==
    /\ call.fn = "extract_tabular_data"
    /\ call.file_path = Chars(SalesTxt)
    /\ ~PathExists(fs, SalesTxt)
    /\ outcome.error = "NotFound"
    /\ PathExists(fs, SalesCsv)

(***************************************************************************)
(* Claims about load (specification SpecLoad)                              *)
(***************************************************************************)
\* C9: a call whose dataframe is no table or whose path is no string fails with
\* InvalidArgument, a call whose path has no recognized extension fails with
\* UnsupportedFormat, and neither changes any file; a file changes only in a
\* call with a table, a string path and a recognized extension, and it is the
\* file at that path
C9_LoadFailures ==
    [][ncalls' = ncalls + 1 =>
          LET typed == call'.dataframe.kind = "DataFrame" /\ call'.file_path.t = "chars"
              known == call'.file_path.t = "chars" /\ RecognizedExtension(call'.file_path.v)
          IN /\ ~typed => (outcome'.kind = "raised" /\ outcome'.error = "InvalidArgument" /\ fs' = fs)
             /\ (typed /\ ~known) =>
                   (outcome'.kind = "raised" /\ outcome'.error = "UnsupportedFormat" /\ fs' = fs)
             /\ fs' # fs =>
                   /\ typed /\ known
                   /\ \A q \in AllPaths : q # call'.file_path.v => fs'[q] = fs[q]
             /\ outcome'.kind = "returned" =>
                   /\ typed /\ known
                   /\ fs'[call'.file_path.v] = Data(call'.dataframe)]_vars
C9_Witness ==
    /\ call.fn = "load"
    /\ call.dataframe.kind = "DataFrame"
    /\ call.file_path = Chars(SalesTxt)
    /\ outcome.error = "UnsupportedFormat"
    /\ fs[SalesTxt] = Absent
    /\ fs[LoadedSales] = Data(CleanedSales)

(***************************************************************************)
(* Claims about the script (specification SpecDriver)                      *)
(***************************************************************************)
\* C10, as stated: a run in which a stage has failed has written no output file
C10_AsStated == failed_at # "" => written = {}

\* C10, amended: after the first failure of a run no later stage runs and no
\* further file is written; a failure of an extract stage, of transform or of
\* the first load comes before any output file of the run is complete; a
\* failure of the second load leaves the first output file written; a run that
\* completes has run the five stages in order and written both output files
C10_AbortsOnFirstFailure ==
    /\ failed_at # "" =>
          /\ pc.status \in {"crashed", "failed"}
          /\ ran = SubSeq(Stages, 1, StageIndex(failed_at))
          /\ written = IF failed_at = "load_sales" THEN {LoadedCapability} ELSE {}
    /\ pc.status = "completed" =>
          /\ failed_at = ""
          /\ ran = Stages
          /\ written = {LoadedCapability, LoadedSales}
          /\ fs[LoadedCapability] = Data(env.capability)
          /\ fs[LoadedSales] = Data(env.cleaned)
    /\ pc.status = "running" => failed_at = "" /\ Len(ran) = StageIndex(pc.stage) - 1
C10_Witness ==
    /\ pc.run = "driver"
    /\ pc.status = "failed"
    /\ failed_at = "load_sales"
    /\ written = {LoadedCapability}
    /\ fs[LoadedCapability] = Data(CapabilityTable)

====
